---------------------------- MODULE Spec2Model ----------------------------
(***************************************************************************)
(* Model of etl_connector.py: the OTX -> MongoDB connector.                *)
(*                                                                         *)
(*   safe_get                 GET with retries, 429 Retry-After, backoff   *)
(*   fetch_subscribed_pulses  paginated generator over /pulses/subscribed  *)
(*   transform_pulse          raw pulse -> document                        *)
(*   upsert_to_mongo          per-document replace_one(upsert) / insert_one*)
(*   main                     ping, fetch loop, batching, final flush      *)
(*                                                                         *)
(* The HTTP server and the MongoDB server are the environment: every       *)
(* response, transport exception and write failure is a nondeterministic   *)
(* choice.  One action is one interaction with the environment together    *)
(* with the code that runs on its result.                                  *)
(***************************************************************************)
EXTENDS Integers, Sequences, FiniteSets, TLC

VARIABLES
    per_page, max_pages, max_retries, batch_size, \* parameters of the run
    feed,            \* environment: the record patterns the server may serve
    http_faults,     \* environment: non-200 outcomes it may still produce
    write_faults,    \* environment: store write failures it may still produce
    pc,              \* position of main
    error,           \* the exception that left main ("" when none)
    page,            \* fetch_subscribed_pulses: page
    items,           \* fetch_subscribed_pulses: items of the current page
    idx,             \* number of items of the current page already yielded
    attempt,         \* safe_get: attempt (the next one to be made)
    backoff,         \* safe_get: backoff
    resp,            \* safe_get: outcome of the last session.get
    tries,           \* the current safe_get call: each outcome and its sleep
    gets,            \* page numbers of the session.get calls issued in the run
    page_log,        \* every 200 response of the run: page and item count
    data,            \* fetch_subscribed_pulses: data, the body of the last 200
    fetched,         \* every item the generator has yielded to main, in order
    docs_to_insert,  \* main: docs_to_insert
    count,           \* main: count
    store,           \* the MongoDB collection, in insertion order
    calls,           \* every upsert_to_mongo call: its batch and its writes
    clock,           \* the last value datetime.utcnow() returned (1 before)
    clock_ties,      \* environment: reads of the clock that may still return
                     \* the value of the read before (the same microsecond)
    transforms,      \* number of transform_pulse calls of the run
    ping,            \* outcome of client.admin.command("ping"): "", "ok", "failed"
    summary,         \* the count logged by "ETL finished", -1 before
    client_open      \* the MongoClient of line 44 is open

vars == <<per_page, max_pages, max_retries, batch_size, feed, http_faults,
          write_faults, pc, error, page, items, idx, attempt, backoff, resp,
          tries, gets, page_log, data, fetched, docs_to_insert, count, store,
          calls, clock, clock_ties, transforms, ping, summary, client_open>>

-----------------------------------------------------------------------------
(* Bounds of the model.                                                    *)

\* max_pages handed to fetch_subscribed_pulses (the default, 100, is out of reach)
MaxPages == 2
\* per_page, batch_size and max_retries of the small configuration
SmallPerPage == 2
SmallBatch == 2
SmallRetries == 3
\* non-200 outcomes and store write failures the environment may produce
MaxHttpFaults == 3
MaxWriteFaults == 2
\* reads of the clock that may return the same microsecond as the read before
MaxClockTies == 2

(* Program constants.                                                      *)
DefaultPerPage == 50
DefaultBatchSize == 20
DefaultMaxRetries == 5
InitialBackoff == 1

-----------------------------------------------------------------------------
(* JSON / Python values, tagged with their type.                           *)

Null == [t |-> "null", v |-> ""]
Str(s) == [t |-> "str", v |-> s]
Num(n) == [t |-> "num", v |-> n]
Obj(d) == [t |-> "obj", v |-> d]      \* d: function from keys to values
List(l) == [t |-> "list", v |-> l]    \* l: sequence of values
Dict(l) == [t |-> "dict", v |-> l]    \* ordered mapping: sequence of <<key, value>>

\* Python truthiness
Truthy(x) ==
    CASE x.t = "null" -> FALSE
      [] x.t = "str"  -> x.v # ""
      [] x.t = "num"  -> x.v # 0
      [] x.t = "obj"  -> DOMAIN x.v # {}
      [] x.t = "list" -> Len(x.v) > 0
      [] x.t = "dict" -> Len(x.v) > 0

\* d.get(k) on an unordered mapping
Get(d, k) == IF k \in DOMAIN d THEN d[k] ELSE Null

\* a or b
Or(a, b) == IF Truthy(a) THEN a ELSE b


-----------------------------------------------------------------------------
(* The Retry-After header: a string, as a sequence of characters.          *)
(* "sup2" stands for U+00B2 SUPERSCRIPT TWO: str.isnumeric() accepts it,   *)
(* float() does not.                                                       *)

DecimalChars == {"0", "1", "2", "3", "4", "5", "6", "7", "8", "9"}
OtherNumericChars == {"sup2"}

DigitValue(c) ==
    CASE c = "0" -> 0 [] c = "1" -> 1 [] c = "2" -> 2 [] c = "3" -> 3
      [] c = "4" -> 4 [] c = "5" -> 5 [] c = "6" -> 6 [] c = "7" -> 7
      [] c = "8" -> 8 [] c = "9" -> 9

\* str.isnumeric(): non-empty and every character has a numeric value
IsNumeric(s) ==
    /\ Len(s) > 0
    /\ \A i \in 1..Len(s) : s[i] \in DecimalChars \cup OtherNumericChars

\* float(s) raises ValueError (s is known to satisfy isnumeric())
FloatRaises(s) == \E i \in 1..Len(s) : s[i] \notin DecimalChars

\* float(s) of a string of decimal digits
RECURSIVE FloatOf(_)
FloatOf(s) ==
    IF s = <<>> THEN 0
    ELSE 10 * FloatOf(SubSeq(s, 1, Len(s) - 1)) + DigitValue(s[Len(s)])

NoHeader == [present |-> FALSE, chars |-> <<>>]
Header(s) == [present |-> TRUE, chars |-> s]

RetryAfterHeaders ==
    { NoHeader, Header(<<>>), Header(<<"1", "0">>),
      Header(<<"2", ".", "5">>), Header(<<"W", "e", "d">>),
      Header(<<"sup2">>) }

\* line 70: retry_after and retry_after.isnumeric()
UsesRetryAfter(h) == h.present /\ h.chars # <<>> /\ IsNumeric(h.chars)

\* line 70: sleep_for
SleepFor(h, bo) == IF UsesRetryAfter(h) THEN FloatOf(h.chars) ELSE bo

-----------------------------------------------------------------------------
(* safe_get                                                                *)

\* line 75: 500 <= resp.status_code < 600
IsServerError(status) == 500 <= status /\ status < 600

\* raise_for_status() that lets the 4xx statuses through
RaisesForStatus_Mut(status) == 500 <= status /\ status < 600

\* line 83: resp.raise_for_status() raises HTTPError for 4xx and 5xx
RaisesForStatus(status) == 400 <= status /\ status < 600

\* a loop that runs once more: range(1, max_retries + 2)
HasNextAttempt_Mut(a, retries) == a <= retries

\* line 56: range(1, max_retries + 1) has another attempt after `a`
HasNextAttempt(a, retries) == a + 1 <= retries

\* line 62, 73, 79: backoff *= 2
NextBackoff(bo) == bo * 2

FaultStatuses == {204, 403, 404, 503}

ExcOutcome == [kind |-> "exc", status |-> 0, retry_after |-> NoHeader]
Response(status, h) == [kind |-> "resp", status |-> status, retry_after |-> h]
NoResponse == [kind |-> "none", status |-> 0, retry_after |-> NoHeader]

\* one entry of tries: the outcome, the sleep that followed (if any), and the
\* number of requests issued when the outcome arrived
Try(o, slept) == [status |-> o.status, slept |-> slept, at |-> Len(gets)]

\* main is left by an exception
Raise(name) ==
    /\ pc' = "crashed"
    /\ error' = name
    /\ UNCHANGED <<attempt, gets>>

\* the end of a loop iteration that did not return: the next session.get
\* (line 58), or line 85
Continue ==
    IF HasNextAttempt(attempt, max_retries)
    THEN /\ attempt' = attempt + 1
         /\ gets' = Append(gets, page)
         /\ UNCHANGED <<pc, error>>
    ELSE Raise("RuntimeError")

\* lines 61-63, 72-74, 78-80: time.sleep(secs); backoff *= 2; continue
SleepAndContinue(o, secs) ==
    /\ tries' = Append(tries, Try(o, <<secs>>))
    /\ backoff' = NextBackoff(backoff)
    /\ Continue

\* what every failed session.get leaves alone
FaultFrame ==
    /\ http_faults' = http_faults - 1
    /\ UNCHANGED <<per_page, max_pages, max_retries, batch_size, feed,
                   write_faults, page, items, idx, page_log, data, fetched,
                   docs_to_insert, count, store, calls, clock, clock_ties,
                   transforms, ping, summary, client_open>>

\* lines 59-63: session.get raises RequestException
GetException ==
    /\ pc = "get" /\ http_faults > 0
    /\ resp' = ExcOutcome
    /\ SleepAndContinue(ExcOutcome, backoff)
    /\ FaultFrame

\* lines 67-74: 429
GetRateLimited ==
    /\ pc = "get" /\ http_faults > 0
    /\ \E h \in RetryAfterHeaders :
         LET o == Response(429, h) IN
         /\ resp' = o
         /\ IF UsesRetryAfter(h) /\ FloatRaises(h.chars)
            THEN /\ Raise("ValueError")
                 /\ tries' = Append(tries, Try(o, <<>>))
                 /\ UNCHANGED backoff
            ELSE SleepAndContinue(o, SleepFor(h, backoff))
    /\ FaultFrame

\* lines 75-80: 5xx; lines 82-83: every other status
GetOtherStatus ==
    /\ pc = "get" /\ http_faults > 0
    /\ \E status \in FaultStatuses, h \in {NoHeader, Header(<<"1", "0">>)} :
         LET o == Response(status, h) IN
         /\ resp' = o
         /\ IF IsServerError(status)
            THEN SleepAndContinue(o, backoff)
            ELSE /\ tries' = Append(tries, Try(o, <<>>))
                 /\ UNCHANGED backoff
                 /\ IF RaisesForStatus(status)
                    THEN Raise("HTTPError")
                    ELSE Continue
    /\ FaultFrame

-----------------------------------------------------------------------------
(* The server's data: response bodies of /pulses/subscribed.               *)

Patterns == {"unique", "mixed"}

\* records that hold every extracted field, some of them, a null count, a
\* pulse_info that is no mapping, and records that are no mapping at all
RecordPatterns == Patterns \cup {"full", "partial", "bad_info", "text"}

\* the raw pulse at position g (1, 2, ...) of the feed
RawOf(pattern, g) ==
    CASE pattern = "unique" ->
           Obj([id |-> Num(g), indicator_count |-> Num(0)])
      [] pattern = "mixed" ->
           IF g % 2 = 1
           THEN Obj([pulse_info |-> Obj([id |-> Str("a"), name |-> Str("n")])])
           ELSE Obj([name |-> Str("x")])
      [] pattern = "full" ->
           Obj([pulse_info |-> Obj([id |-> Str("a"), name |-> Str("n"),
                                    created |-> Str("c"), modified |-> Str("m")]),
                id |-> Num(g), indicator_count |-> Num(3)])
      [] pattern = "partial" ->
           Obj([pulse_info |-> Obj([name |-> Str("n")]),
                indicator_count |-> Null])
      [] pattern = "bad_info" ->
           Obj([pulse_info |-> Str("x"), id |-> Num(g)])
      [] pattern = "text" ->
           IF g % 2 = 1 THEN Obj([id |-> Num(g)]) ELSE Str("oops")

\* n records of page p
Records(pattern, p, pp, n) ==
    [i \in 1..n |-> RawOf(pattern, (p - 1) * pp + i)]

Shapes == {"results", "pulses", "empty_results", "data", "nested",
           "other_first", "scalar", "results_scalar", "empty"}

\* a JSON object holding the records l in one of the shapes
Body(shape, l) ==
    CASE shape = "results" ->
           Dict(<< <<"count", Num(Len(l))>>, <<"results", List(l)>> >>)
      [] shape = "pulses" ->
           Dict(<< <<"pulses", List(l)>> >>)
      [] shape = "empty_results" ->
           Dict(<< <<"results", List(<<>>)>>, <<"pulses", List(l)>> >>)
      [] shape = "data" ->
           Dict(<< <<"count", Num(Len(l))>>, <<"data", List(l)>> >>)
      [] shape = "nested" ->
           Dict(<< <<"results",
                     Dict(<< <<"next", Null>>, <<"items", List(l)>> >>)>> >>)
      [] shape = "other_first" ->
           Dict(<< <<"other", List(l)>>, <<"results", List(<<>>)>> >>)
      [] shape = "scalar" ->
           Dict(<< <<"count", Num(Len(l))>> >>)
      [] shape = "results_scalar" ->
           Dict(<< <<"results", Str("none")>> >>)
      [] shape = "empty" ->
           Dict(<<>>)

Bodies(f, p, pp) ==
    { Body(shape, Records(pattern, p, pp, n)) :
        shape \in f.shapes, pattern \in f.patterns, n \in f.sizes }

-----------------------------------------------------------------------------
(* fetch_subscribed_pulses                                                 *)

\* data.get(k) on an ordered mapping
DictGet(d, k) ==
    IF \E i \in 1..Len(d.v) : d.v[i][1] = k
    THEN d.v[CHOOSE i \in 1..Len(d.v) : d.v[i][1] = k][2]
    ELSE Null

\* lines 108-113: the first list among the values of a dict, in order
HasList(d) == \E i \in 1..Len(d.v) : d.v[i][2].t = "list"
FirstList(d) ==
    d.v[CHOOSE i \in 1..Len(d.v) :
            /\ d.v[i][2].t = "list"
            /\ \A j \in 1..(i - 1) : d.v[j][2].t # "list"][2]

\* lines 102-117: the items of a response, or why pagination stops
ResolveItems(body) ==
    LET items0 == Or(Or(DictGet(body, "results"), DictGet(body, "pulses")), body)
        items1 == IF items0.t = "dict" /\ HasList(items0)
                  THEN FirstList(items0) ELSE items0
    IN  IF ~Truthy(items0) THEN [stop |-> "no_items", items |-> <<>>]
        ELSE IF items1.t # "list" THEN [stop |-> "shape", items |-> <<>>]
        ELSE [stop |-> "", items |-> items1.v]

\* the stopping condition off by one: len(items) <= per_page
LastPage_Mut(its, pp) == Len(its) <= pp

\* line 123: len(items) < per_page
LastPage(its, pp) == Len(its) < pp

\* the safety limit off by one: while page <= max_pages + 1
InRange_Mut(p, maxp) == p <= maxp + 1

\* line 96: while page <= max_pages
InRange(p, maxp) == p <= maxp

\* lines 65-66 and 100-117: 200, the body parsed and resolved
GetOk ==
    /\ pc = "get"
    /\ \E body \in Bodies(feed, page, per_page) :
         LET r == ResolveItems(body) IN
         /\ data' = body
         /\ items' = r.items
         /\ page_log' = Append(page_log,
                [page |-> page, n |-> Len(r.items), stop |-> r.stop,
                 at |-> Len(gets)])
         /\ pc' = IF r.stop = "" THEN "yield" ELSE "flush"
    /\ resp' = Response(200, NoHeader)
    /\ tries' = Append(tries, Try(Response(200, NoHeader), <<>>))
    /\ idx' = 0
    /\ UNCHANGED <<per_page, max_pages, max_retries, batch_size, feed,
                   http_faults, write_faults, error, page, attempt, backoff,
                   gets, fetched, docs_to_insert, count, store, calls,
                   clock, clock_ties, transforms, ping, summary, client_open>>

\* the page number not advanced
NextPage_Mut(p) == p

\* line 127: page += 1
NextPage(p) == p + 1

\* lines 96-99: the first session.get of safe_get for page p
StartPage(p) ==
    /\ pc' = "get"
    /\ page' = p
    /\ attempt' = 1
    /\ backoff' = InitialBackoff
    /\ tries' = <<>>
    /\ resp' = NoResponse
    /\ gets' = Append(gets, p)

\* lines 122-127 and 96-99: the generator resumed after the last item of a page
ResumeAfterPage ==
    /\ pc = "yield" /\ idx = Len(items)
    /\ IF LastPage(items, per_page)
       THEN /\ pc' = "flush"
            /\ UNCHANGED <<page, attempt, backoff, tries, resp, gets>>
       ELSE IF InRange(NextPage(page), max_pages)
       THEN StartPage(NextPage(page))
       ELSE /\ pc' = "flush"
            /\ page' = NextPage(page)
            /\ UNCHANGED <<attempt, backoff, tries, resp, gets>>
    /\ UNCHANGED <<per_page, max_pages, max_retries, batch_size, feed,
                   http_faults, write_faults, error, items, idx, page_log,
                   data, fetched, docs_to_insert, count, store, calls, clock,
                   clock_ties, transforms, ping, summary, client_open>>

-----------------------------------------------------------------------------
(* transform_pulse and validate_document                                   *)

\* d[k] = v on a mapping
Put(d, k, v) == [x \in DOMAIN d \cup {k} |-> IF x = k THEN v ELSE d[x]]

\* lines 26, 30, 31: the environment's defaults
BASE_URL == Str("https://otx.alienvault.com/api/v1")
CONNECTOR_NAME == Str("otx_pulses_connector")
CITY == Str("")

\* a transform that keeps the pulse_info sub-mapping instead of the record
transform_pulse_Mut(raw, now) ==
    [ingestion_timestamp |-> Num(now),
     connector_name |-> CONNECTOR_NAME,
     source |-> Str("otx"),
     source_base_url |-> BASE_URL,
     source_city |-> Or(CITY, Null),
     raw |-> Or(Get(raw.v, "pulse_info"), raw)]

\* lines 137-164; now is datetime.utcnow()
transform_pulse(raw, now) ==
    LET t0 == [ingestion_timestamp |-> Num(now),
               connector_name |-> CONNECTOR_NAME,
               source |-> Str("otx"),
               source_base_url |-> BASE_URL,
               source_city |-> Or(CITY, Null),
               raw |-> raw]
        pulse_info == IF raw.t = "obj" THEN Get(raw.v, "pulse_info") ELSE Null
        t1 == IF Truthy(pulse_info)
              THEN Put(Put(Put(Put(t0,
                       "pulse_name", Get(pulse_info.v, "name")),
                       "pulse_id", Get(pulse_info.v, "id")),
                       "pulse_created", Get(pulse_info.v, "created")),
                       "pulse_modified", Get(pulse_info.v, "modified"))
              ELSE t0
        t2 == IF Truthy(Get(raw.v, "id"))
              THEN Put(t1, "pulse_id", Or(Get(t1, "pulse_id"), Get(raw.v, "id")))
              ELSE t1
        t3 == IF Get(raw.v, "indicator_count").t # "null"
              THEN Put(t2, "indicator_count", Get(raw.v, "indicator_count"))
              ELSE t2
    IN  t3

\* lines 199-203
validate_document(doc) ==
    /\ "ingestion_timestamp" \in DOMAIN doc
    /\ "raw" \in DOMAIN doc

-----------------------------------------------------------------------------
(* upsert_to_mongo                                                         *)

\* collection.replace_one({"pulse_id": pulse_id}, doc, upsert=True)
Matches(d, pulse_id) ==
    /\ "pulse_id" \in DOMAIN d
    /\ d["pulse_id"].t = pulse_id.t
    /\ d["pulse_id"].v = pulse_id.v
\* a replace_one that never finds the stored document
ReplaceOne_Mut(st, pulse_id, doc) == Append(st, doc)

ReplaceOne(st, pulse_id, doc) ==
    IF \E i \in 1..Len(st) : Matches(st[i], pulse_id)
    THEN LET k == CHOOSE i \in 1..Len(st) :
                      /\ Matches(st[i], pulse_id)
                      /\ \A j \in 1..(i - 1) : ~Matches(st[j], pulse_id)
         IN  [st EXCEPT ![k] = doc]
    ELSE Append(st, doc)

\* collection.insert_one(doc)
InsertOne(st, doc) == Append(st, doc)

\* lines 177-178: pulse_id = doc.get(upsert_on); if pulse_id
WriteOp(doc) ==
    IF Truthy(Get(doc, "pulse_id")) THEN "replace_one" ELSE "insert_one"

\* a loop that the first failed write leaves
WritesOf_Mut(documents, F) ==
    LET last == IF F = {} THEN Len(documents)
                ELSE CHOOSE x \in F : \A y \in F : x <= y
    IN  [i \in 1..last |->
            [op |-> WriteOp(documents[i]), doc |-> documents[i],
             ok |-> i \notin F]]

\* lines 176-191: the writes of one call, F the positions whose write fails
WritesOf(documents, F) ==
    [i \in 1..Len(documents) |->
        [op |-> WriteOp(documents[i]), doc |-> documents[i], ok |-> i \notin F]]

\* the collection after the writes ws
RECURSIVE ApplyWrites(_, _)
ApplyWrites(st, ws) ==
    IF ws = <<>> THEN st
    ELSE LET w == Head(ws)
             st1 == IF ~w.ok THEN st
                    ELSE IF w.op = "replace_one"
                    THEN ReplaceOne(st, Get(w.doc, "pulse_id"), w.doc)
                    ELSE InsertOne(st, w.doc)
         IN  ApplyWrites(st1, Tail(ws))

\* the sets of positions of a batch of n documents where a write may fail
RECURSIVE FailSets(_, _)
FailSets(n, budget) ==
    IF budget = 0 THEN {{}}
    ELSE LET smaller == FailSets(n, budget - 1)
         IN  smaller \cup { F \cup {i} : F \in smaller, i \in 1..n }

\* lines 167-191: one call of upsert_to_mongo(documents)
UpsertToMongo(documents) ==
    \E F \in FailSets(Len(documents), write_faults) :
        LET ws == WritesOf(documents, F) IN
        /\ store' = ApplyWrites(store, ws)
        /\ calls' = Append(calls, [docs |-> documents, writes |-> ws])
        /\ write_faults' = write_faults - Cardinality(F)

-----------------------------------------------------------------------------
(* main                                                                    *)

\* the ping's exception logged and main going on
ReturnsOnPingFailure_Mut == FALSE

\* line 217: main returns when the ping raised
ReturnsOnPingFailure == TRUE

\* lines 212-219: the ping; when it succeeds the for loop starts the generator
Ping ==
    /\ pc = "start"
    /\ \E ok \in BOOLEAN :
         /\ ping' = IF ok THEN "ok" ELSE "failed"
         /\ IF ok \/ ~ReturnsOnPingFailure
            THEN StartPage(1)
            ELSE /\ pc' = "ping_failed"
                 /\ UNCHANGED <<page, attempt, backoff, tries, resp, gets>>
    /\ UNCHANGED <<per_page, max_pages, max_retries, batch_size, feed,
                   http_faults, write_faults, error, items, idx, page_log,
                   data, fetched, docs_to_insert, count, store, calls, clock,
                   clock_ties, transforms, summary, client_open>>

\* line 229: len(docs_to_insert) >= batch_size
BatchFull(docs, size) == Len(docs) >= size

\* a batch that is loaded and not cleared
AfterBatch_Mut(docs) == docs

\* line 232: docs_to_insert.clear()
AfterBatch(docs) == <<>>

\* lines 148-157: raw.get, pulse_info.get on a value that is not a mapping
\* raise AttributeError
TransformRaises(raw) ==
    \/ raw.t # "obj"
    \/ /\ Truthy(Get(raw.v, "pulse_info"))
       /\ Get(raw.v, "pulse_info").t # "obj"

\* line 138: the values datetime.utcnow() may return when the read before
\* returned `last`: a later instant or, while the environment allows it and
\* there was a read before, the same one (the system clock is taken not to
\* be set back during a run)
UtcNow(last, ties, reads) ==
    {last + 1} \cup (IF ties > 0 /\ reads > 0 THEN {last} ELSE {})

\* lines 219-232: one iteration of the for loop on the next yielded item
ProcessItem ==
    /\ pc = "yield" /\ idx < Len(items)
    /\ idx' = idx + 1
    /\ transforms' = transforms + 1
    /\ fetched' = Append(fetched, items[idx + 1])
    /\ \E now \in UtcNow(clock, clock_ties, transforms) :
         /\ clock' = now
         /\ clock_ties' = IF now = clock THEN clock_ties - 1 ELSE clock_ties
         /\ IF TransformRaises(items[idx + 1])
            THEN /\ Raise("AttributeError")
                 /\ UNCHANGED <<docs_to_insert, count, store, calls,
                                write_faults>>
            ELSE /\ UNCHANGED <<pc, error, attempt, gets>>
                 /\ LET transformed == transform_pulse(items[idx + 1], now) IN
                    IF ~validate_document(transformed)
                    THEN UNCHANGED <<docs_to_insert, count, store, calls,
                                     write_faults>>
                    ELSE LET docs == Append(docs_to_insert, transformed) IN
                         /\ count' = count + 1
                         /\ IF BatchFull(docs, batch_size)
                            THEN /\ UpsertToMongo(docs)
                                 /\ docs_to_insert' = AfterBatch(docs)
                            ELSE /\ docs_to_insert' = docs
                                 /\ UNCHANGED <<store, calls, write_faults>>
    /\ UNCHANGED <<per_page, max_pages, max_retries, batch_size, feed,
                   http_faults, page, items, backoff, resp, tries, page_log,
                   data, ping, summary, client_open>>

\* lines 234-239: the generator is exhausted
FinalFlush ==
    /\ pc = "flush"
    /\ IF docs_to_insert # <<>>
       THEN UpsertToMongo(docs_to_insert)
       ELSE UNCHANGED <<store, calls, write_faults>>
    /\ summary' = count
    /\ pc' = "done"
    /\ UNCHANGED <<per_page, max_pages, max_retries, batch_size, feed,
                   http_faults, error, page, items, idx, attempt, backoff,
                   resp, tries, gets, page_log, data, fetched, docs_to_insert,
                   count, clock, clock_ties, transforms, ping, client_open>>

-----------------------------------------------------------------------------
(* Specifications                                                          *)

\* what every run starts from (lines 44, 209-210)
InitRun ==
    /\ pc = "start" /\ error = ""
    /\ page = 0 /\ items = <<>> /\ idx = 0
    /\ attempt = 0 /\ backoff = 0 /\ resp = NoResponse
    /\ tries = <<>> /\ gets = <<>> /\ page_log = <<>>
    /\ data = Null /\ fetched = <<>>
    /\ docs_to_insert = <<>> /\ count = 0
    /\ calls = <<>> /\ clock = 1 /\ transforms = 0
    /\ ping = "" /\ summary = -1
    /\ client_open = TRUE

\* one shape per outcome of lines 102-117: a list of items, "Unexpected
\* shape", "No items"
PipelineShapes == {"results", "scalar", "empty"}

\* the small configuration: the HTTP server fails, or the store fails, or
\* the clock returns the same microsecond twice
Init ==
    /\ per_page = SmallPerPage
    /\ batch_size = SmallBatch
    /\ max_retries = SmallRetries
    /\ max_pages = MaxPages
    /\ \/ /\ feed = [patterns |-> {"unique"}, shapes |-> PipelineShapes,
                     sizes |-> 0..(SmallPerPage + 1)]
          /\ http_faults = MaxHttpFaults
          /\ write_faults = 0
          /\ clock_ties = 0
       \/ /\ feed = [patterns |-> Patterns, shapes |-> PipelineShapes,
                     sizes |-> 0..(SmallPerPage + 1)]
          /\ http_faults = 0
          /\ write_faults = MaxWriteFaults
          /\ clock_ties = 0
       \/ /\ feed = [patterns |-> Patterns, shapes |-> PipelineShapes,
                     sizes |-> 0..(SmallPerPage + 1)]
          /\ http_faults = 0
          /\ write_faults = 0
          /\ clock_ties = MaxClockTies
    /\ store = <<>>
    /\ InitRun

\* main() as the program calls it: per_page=50, batch_size=20, max_retries=5;
\* one request fails, or the clock returns the same microsecond twice
InitDefault ==
    /\ per_page = DefaultPerPage
    /\ batch_size = DefaultBatchSize
    /\ max_retries = DefaultMaxRetries
    /\ max_pages = MaxPages
    /\ feed = [patterns |-> {"unique"}, shapes |-> {"results", "empty"},
               sizes |-> {0, 30, DefaultPerPage}]
    /\ \/ http_faults = 1 /\ clock_ties = 0
       \/ http_faults = 0 /\ clock_ties = 1
    /\ write_faults = 0
    /\ store = <<>>
    /\ InitRun

\* every response shape, on a server that fails at most once
InitShapes ==
    /\ per_page = SmallPerPage
    /\ batch_size = SmallBatch
    /\ max_retries = SmallRetries
    /\ max_pages = MaxPages
    /\ feed = [patterns |-> {"unique"}, shapes |-> Shapes,
               sizes |-> 0..SmallPerPage]
    /\ http_faults = 1
    /\ write_faults = 0
    /\ clock_ties = MaxClockTies
    /\ store = <<>>
    /\ InitRun

\* every record pattern, on a server that fails at most once
InitRecords ==
    /\ per_page = SmallPerPage
    /\ batch_size = SmallBatch
    /\ max_retries = SmallRetries
    /\ max_pages = MaxPages
    /\ feed = [patterns |-> RecordPatterns, shapes |-> {"results"},
               sizes |-> 0..SmallPerPage]
    /\ http_faults = 1
    /\ write_faults = 0
    /\ clock_ties = MaxClockTies
    /\ store = <<>>
    /\ InitRun

\* a server that may fail every request of the run
InitTerm ==
    /\ per_page = SmallPerPage
    /\ batch_size = SmallBatch
    /\ max_retries = SmallRetries
    /\ max_pages = MaxPages
    /\ feed = [patterns |-> {"unique"}, shapes |-> PipelineShapes,
               sizes |-> {0, SmallPerPage}]
    /\ http_faults = MaxPages * SmallRetries
    /\ write_faults = 0
    /\ clock_ties = 0
    /\ store = <<>>
    /\ InitRun

Next ==
    \/ Ping
    \/ GetOk
    \/ GetException
    \/ GetRateLimited
    \/ GetOtherStatus
    \/ ResumeAfterPage
    \/ ProcessItem
    \/ FinalFlush

Spec == Init /\ [][Next]_vars

SpecDefault == InitDefault /\ [][Next]_vars

SpecShapes == InitShapes /\ [][Next]_vars

SpecRecords == InitRecords /\ [][Next]_vars

SpecTerm == InitTerm /\ [][Next]_vars

-----------------------------------------------------------------------------
(* Properties                                                              *)

CountOf(seq, x) == Cardinality({ i \in 1..Len(seq) : seq[i] = x })

RECURSIVE Pow2(_)
Pow2(n) == IF n = 0 THEN 1 ELSE 2 * Pow2(n - 1)

\* the positions <<call, write>> of all writes of the run
WritePositions ==
    UNION { { <<c, i>> : i \in 1..Len(calls[c].writes) } : c \in 1..Len(calls) }
WriteAt(ci) == calls[ci[1]].writes[ci[2]]

\* number of documents handed to upsert_to_mongo so far
RECURSIVE DocsHanded(_)
DocsHanded(cs) == IF cs = <<>> THEN 0 ELSE Len(Head(cs).docs) + DocsHanded(Tail(cs))

\* number of writes issued so far
RECURSIVE WritesIssued(_)
WritesIssued(cs) ==
    IF cs = <<>> THEN 0 ELSE Len(Head(cs).writes) + WritesIssued(Tail(cs))

\* C1: for every page below max_pages, a page of exactly per_page items is
\* followed by a request for the next page once the generator is resumed, and
\* a page of fewer items is yielded in full and followed by no request.
C1_Pagination ==
    \A k \in 1..Len(page_log) :
        LET e == page_log[k] IN
        e.page < max_pages =>
            /\ (e.n = per_page /\ (k < Len(page_log) \/ pc # "yield"))
                   => \E i \in 1..Len(gets) : gets[i] = e.page + 1
            /\ e.n < per_page
                   => /\ k = Len(page_log)
                      /\ Len(gets) = e.at
                      /\ pc \in {"yield", "flush", "done"}
                      /\ (pc # "yield" => idx = e.n)

C1_Witness ==
    \E k \in 1..Len(page_log) :
        /\ page_log[k].page < max_pages
        /\ page_log[k].n = per_page
        /\ \E i \in 1..Len(gets) : gets[i] = page_log[k].page + 1

\* the stored documents with identifier id, the successful loads of id, and
\* every non-empty identifier upsert_to_mongo has been given
StoredWith(id) == { i \in 1..Len(store) : Matches(store[i], id) }
LoadsOf(id) ==
    { ci \in WritePositions :
        /\ WriteAt(ci).ok
        /\ Truthy(Get(WriteAt(ci).doc, "pulse_id"))
        /\ Get(WriteAt(ci).doc, "pulse_id") = id }
LoadedIds ==
    { Get(WriteAt(ci).doc, "pulse_id") :
        ci \in { x \in WritePositions : Truthy(Get(WriteAt(x).doc, "pulse_id")) } }

\* C2: a document with a non-empty pulse_id that has been loaded is stored
\* exactly once, however often it is loaded again, and no identifier is ever
\* stored twice.
C2_UpsertIdempotent ==
    \A id \in LoadedIds :
        /\ Cardinality(StoredWith(id)) <= 1
        /\ LoadsOf(id) # {} => Cardinality(StoredWith(id)) = 1

C2_Witness ==
    \E a \in WritePositions, b \in WritePositions :
        /\ a # b
        /\ WriteAt(a).ok /\ WriteAt(b).ok
        /\ WriteAt(a).doc = WriteAt(b).doc
        /\ Truthy(Get(WriteAt(a).doc, "pulse_id"))
        /\ Cardinality(StoredWith(Get(WriteAt(a).doc, "pulse_id"))) = 1

\* a transport exception (status 0), a 429 or a 5xx
RetryableStatus(st) == st = 0 \/ st = 429 \/ (500 <= st /\ st <= 599)

\* C3: a safe_get call issues at most max_retries GET requests, 429 responses
\* included, and ends in failure when all of them failed retryably.
C3_RetryCeiling ==
    /\ \A p \in 1..max_pages : CountOf(gets, p) <= max_retries
    /\ attempt <= max_retries
    /\ Len(tries) <= max_retries
    /\ (/\ Len(tries) = max_retries
        /\ \A i \in 1..Len(tries) : RetryableStatus(tries[i].status))
           => pc = "crashed" /\ error # ""

C3_Witness ==
    /\ pc = "crashed" /\ error = "RuntimeError"
    /\ Len(tries) = max_retries
    /\ CountOf(gets, page) = max_retries
    /\ \E i, j, k \in 1..Len(tries) :
          tries[i].status = 0 /\ tries[j].status = 429 /\ tries[k].status = 503

\* a Retry-After header that is a decimal number; the number of sleeps of the
\* current call before its k-th outcome
DecimalHeader(h) ==
    /\ h.present /\ Len(h.chars) > 0
    /\ \A i \in 1..Len(h.chars) : h.chars[i] \in DecimalChars
SleepsBefore(k) == Cardinality({ i \in 1..(k - 1) : tries[i].slept # <<>> })

\* C4: after a 429 response the fetcher sleeps the Retry-After value when the
\* header is present and numeric, and the current backoff value otherwise.
C4_RetryAfterHonoured ==
    (resp.kind = "resp" /\ resp.status = 429) =>
        LET k == Len(tries) IN
        tries[k].slept =
            << IF DecimalHeader(resp.retry_after)
               THEN FloatOf(resp.retry_after.chars)
               ELSE InitialBackoff * Pow2(SleepsBefore(k)) >>

\* C5: a 4xx response other than 429 ends safe_get at once with HTTPError: no
\* sleep follows it and no GET request is issued after it.
C5_ClientErrorFailsFast ==
    (resp.kind = "resp" /\ 400 <= resp.status /\ resp.status <= 499
        /\ resp.status # 429) =>
        /\ pc = "crashed" /\ error = "HTTPError"
        /\ tries[Len(tries)].slept = <<>>
        /\ tries[Len(tries)].at = Len(gets)

C5_Witness ==
    /\ resp.status = 404 /\ pc = "crashed"
    /\ Len(tries) >= 2 /\ tries[1].slept # <<>>

\* C6: when the retries of a page are exhausted the run still hands every
\* counted document to the loader and logs the final summary count.
C6_ExhaustionReported ==
    (pc = "crashed" /\ error = "RuntimeError") =>
        /\ DocsHanded(calls) = count
        /\ summary = count

\* C7: every call of upsert_to_mongo attempts one write per document of its
\* batch, in batch order, whichever of the writes fail.
C7_FailureIsolated ==
    \A c \in 1..Len(calls) :
        /\ Len(calls[c].writes) = Len(calls[c].docs)
        /\ \A i \in 1..Len(calls[c].writes) :
              /\ calls[c].writes[i].doc = calls[c].docs[i]
              /\ calls[c].writes[i].op =
                    IF Truthy(Get(calls[c].docs[i], "pulse_id"))
                    THEN "replace_one" ELSE "insert_one"

C7_Witness ==
    \E c \in 1..Len(calls) :
        /\ Len(calls[c].docs) >= 2
        /\ Len(calls[c].writes) = Len(calls[c].docs)
        /\ ~calls[c].writes[1].ok
        /\ calls[c].writes[2].ok
        /\ \E i \in 1..Len(store) : store[i] = calls[c].docs[2]

\* C8: no GET request and no store write precedes a successful ping, and a
\* failed ping ends the run with nothing fetched, processed or written.
C8_PingFirst ==
    /\ (gets # <<>> \/ page_log # <<>> \/ calls # <<>> \/ transforms > 0)
           => ping = "ok"
    /\ ping = "failed" =>
           /\ pc = "ping_failed"
           /\ gets = <<>> /\ page_log = <<>>
           /\ transforms = 0 /\ count = 0
           /\ calls = <<>> /\ store = <<>>

C8_Witness == ping = "failed" /\ pc = "ping_failed" /\ gets = <<>>

\* a finished run of page size 50 whose pages held 50 and 30 records, with
\* every request answered 200 and every write successful
C9_Pages50And30 ==
    /\ pc = "done" /\ per_page = 50
    /\ Len(page_log) >= 2
    /\ page_log[1].n = 50 /\ page_log[2].n = 30
    /\ Len(gets) = Len(page_log)
    /\ \A ci \in WritePositions : WriteAt(ci).ok

\* C9: with page size 50 and no failures, pages of 50 and 30 records make the
\* run request exactly 2 pages, transform 80 records, issue at most 80 writes
\* and report 80 processed documents.
C9_EndToEnd ==
    C9_Pages50And30 =>
        /\ gets = <<1, 2>>
        /\ transforms = 80
        /\ WritesIssued(calls) <= 80
        /\ count = 80 /\ summary = 80

C9_Witness == C9_Pages50And30 /\ summary = 80 /\ Len(calls) = 4

\* C10: the connection to the document store is closed on every exit path of
\* main.
C10_ClientClosed ==
    pc \in {"done", "ping_failed", "crashed"} => ~client_open

\* every document handed to upsert_to_mongo so far, in order, and those
\* followed by the documents still buffered
RECURSIVE Handed(_)
Handed(cs) == IF cs = <<>> THEN <<>> ELSE Head(cs).docs \o Handed(Tail(cs))
AllDocs == IF pc = "done" THEN Handed(calls) ELSE Handed(calls) \o docs_to_insert

\* the record is a mapping that holds a pulse_info sub-mapping
HasPulseInfo(raw) ==
    /\ raw.t = "obj"
    /\ "pulse_info" \in DOMAIN raw.v
    /\ raw.v["pulse_info"].t = "obj"
DocsOf(raw) == { k \in 1..Len(AllDocs) : AllDocs[k]["raw"] = raw }

\* C11: a fetched record without its pulse_info sub-mapping is skipped (no
\* document is built from it) and the run goes on; a record that holds the
\* sub-mapping is transformed whichever optional fields it lacks.
C11_InvalidRecord ==
    \A k \in 1..Len(fetched) :
        IF HasPulseInfo(fetched[k])
        THEN DocsOf(fetched[k]) # {}
        ELSE DocsOf(fetched[k]) = {} /\ error # "AttributeError"

\* C12: every document handed to upsert_to_mongo, and every stored document,
\* holds an ingestion_timestamp and, as raw, the very record it was built
\* from: the k-th document handed is built from the k-th record fetched.
C12_TimestampAndRaw ==
    /\ \A k \in 1..Len(Handed(calls)) :
          LET doc == Handed(calls)[k] IN
          /\ {"ingestion_timestamp", "raw"} \subseteq DOMAIN doc
          /\ doc["ingestion_timestamp"].t = "num"
          /\ doc["ingestion_timestamp"].v \in 1..clock
          /\ k <= Len(fetched) /\ doc["raw"] = fetched[k]
    /\ \A i \in 1..Len(store) :
          /\ {"ingestion_timestamp", "raw"} \subseteq DOMAIN store[i]
          /\ \E k \in 1..Len(Handed(calls)) : store[i] = Handed(calls)[k]

C12_Witness ==
    \E i \in 1..Len(store) :
        /\ HasPulseInfo(store[i]["raw"])
        /\ "pulse_id" \in DOMAIN store[i]
        /\ \E k \in 1..Len(fetched) : fetched[k] = store[i]["raw"]

\* C13: a response whose status is neither 200, 429 nor 5xx ends safe_get at
\* once with the status raised to the caller: no GET request follows it.
C13_OtherStatusFailsAtOnce ==
    (/\ resp.kind = "resp"
     /\ resp.status \notin {200, 429}
     /\ ~(500 <= resp.status /\ resp.status <= 599)) =>
        /\ pc = "crashed" /\ error = "HTTPError"
        /\ Len(gets) = tries[Len(tries)].at

\* C14: the k-th attempt of a call that fails with a transport exception or
\* a 5xx status is followed by a sleep of exactly 2^(k-1) seconds.
C14_BackoffDoubles ==
    \A k \in 1..Len(tries) :
        (tries[k].status = 0 \/ (500 <= tries[k].status /\ tries[k].status <= 599))
            => tries[k].slept = << InitialBackoff * Pow2(k - 1) >>

\* data has the key k; the lists data holds under a known field name
HasKey(d, k) == \E i \in 1..Len(d.v) : d.v[i][1] = k
HasKnownField(d) == HasKey(d, "results") \/ HasKey(d, "pulses")
KnownLists(d) ==
    { DictGet(d, k).v :
        k \in { x \in {"results", "pulses"} :
                  HasKey(d, x) /\ DictGet(d, x).t = "list" } }

\* C15: the items of a page are the records of its known field (results,
\* then pulses), also when that list is empty; without a known field they
\* are the first list among the values of the response; without any list
\* pagination stops with no error and no record yielded.
C15_ShapeResolution ==
    data.t = "dict" =>
        IF HasKnownField(data)
        THEN KnownLists(data) # {} => items \in KnownLists(data)
        ELSE IF HasList(data)
        THEN items = FirstList(data).v
        ELSE /\ items = <<>> /\ idx = 0
             /\ pc \in {"flush", "done"} /\ error = ""

\* the generator has returned
GeneratorEnded == pc \in {"flush", "done"}

\* an upper bound of the number of steps a run still takes: the requests
\* main may still issue weigh more than a response awaited, which weighs
\* more than the items of a page
GetWeight == 3 * (per_page + 2) + 3
RequestWeight == GetWeight + 1
Rank(p) ==
    CASE p = "start" -> GetWeight + 1
      [] p = "get" -> GetWeight
      [] p = "yield" -> 2
      [] p = "flush" -> 1
      [] OTHER -> 0
StepsLeft ==
    RequestWeight * (max_pages * max_retries - Len(gets))
        + Rank(pc) + 3 * (Len(items) - idx)

\* C16: a run requests only pages 1..max_pages and issues at most
\* max_pages * max_retries GET requests; the generator ends only after a page
\* that is short, empty or malformed or after page max_pages, or with a
\* failed request; and every run ends, because every step lowers a natural
\* number.
C16_Terminates ==
    /\ [](/\ Len(gets) <= max_pages * max_retries
          /\ \A i \in 1..Len(gets) : gets[i] \in 1..max_pages
          /\ \A p \in 1..max_pages : CountOf(gets, p) <= max_retries
          /\ (GeneratorEnded /\ ping = "ok") =>
                 LET e == page_log[Len(page_log)] IN
                 \/ e.stop # ""
                 \/ e.n < per_page
                 \/ e.page = max_pages /\ page > max_pages
          /\ pc = "crashed" =>
                 /\ error \in {"HTTPError", "RuntimeError", "ValueError"}
                 /\ resp.kind # "resp" \/ resp.status # 200
          /\ StepsLeft >= 0)
    /\ [][StepsLeft' < StepsLeft]_vars

C16_Witness ==
    /\ pc = "crashed" /\ error = "RuntimeError"
    /\ Len(gets) = max_pages * max_retries
    /\ page = max_pages

ScalarFields ==
    {"pulse_name", "pulse_id", "pulse_created", "pulse_modified",
     "indicator_count"}

\* C17: a document holds an extracted scalar field only with the value the
\* record holds for it: never with a null, and a name that pulse_info holds
\* is extracted.
C17_AbsentFieldsUnset ==
    \A k \in 1..Len(AllDocs) :
        LET doc == AllDocs[k] IN
        /\ \A f \in ScalarFields : f \in DOMAIN doc => doc[f] # Null
        /\ (HasPulseInfo(doc["raw"])
              /\ "name" \in DOMAIN doc["raw"].v["pulse_info"].v)
                => /\ "pulse_name" \in DOMAIN doc
                   /\ doc["pulse_name"] = doc["raw"].v["pulse_info"].v["name"]

\* the records the documents ds were built from
RawsOf(ds) == [k \in 1..Len(ds) |-> ds[k]["raw"]]

\* the batches are non-empty and no larger than batch_size, the buffer is
\* no larger than batch_size, and the documents are handed on in the order
\* their records were fetched
BatchesInOrder ==
    /\ Len(docs_to_insert) <= batch_size
    /\ \A c \in 1..Len(calls) : Len(calls[c].docs) \in 1..batch_size
    /\ \A k \in 1..Len(AllDocs) : AllDocs[k]["raw"] = fetched[k]
    /\ pc = "done" => RawsOf(Handed(calls)) = fetched

\* C18: at every point count is the number of documents handed to
\* upsert_to_mongo plus the number of documents in the buffer; batches and
\* buffer hold at most batch_size documents; a finished run has handed every
\* document on exactly once, in fetch order.
C18_BatchingInvariant ==
    /\ count = DocsHanded(calls) + Len(docs_to_insert)
    /\ BatchesInOrder

\* C18 as amended: the final flush hands the buffer on without clearing it;
\* until then count is handed plus buffered, from then on count is the
\* number handed and the buffer still holds the last batch.
C18_BatchingAmended ==
    /\ pc # "done" => count = DocsHanded(calls) + Len(docs_to_insert)
    /\ pc = "done" =>
          /\ count = DocsHanded(calls)
          /\ docs_to_insert # <<>> => calls[Len(calls)].docs = docs_to_insert
    /\ BatchesInOrder

C18_Witness ==
    /\ pc = "done" /\ Len(calls) >= 2
    /\ Len(calls[1].docs) = batch_size
    /\ docs_to_insert # <<>> /\ Len(docs_to_insert) < batch_size
    /\ count = DocsHanded(calls)

\* number of items of the pages answered 200 so far
RECURSIVE ItemsServed(_)
ItemsServed(log) ==
    IF log = <<>> THEN 0 ELSE Head(log).n + ItemsServed(Tail(log))
\* the i-th GET request of the run was answered 200
Answered200(i) == \E k \in 1..Len(page_log) : page_log[k].at = i

\* C19: the requested page numbers start at 1 and never decrease or skip;
\* the next page is requested only after a 200 for the page before, all of
\* whose items were yielded; a request not answered 200 is followed by a
\* request for the same page; a page answered 200 is not requested again.
C19_PageOrder ==
    /\ gets # <<>> => gets[1] = 1
    /\ \A i \in 1..(Len(gets) - 1) :
          /\ gets[i + 1] \in {gets[i], gets[i] + 1}
          /\ gets[i + 1] = gets[i] + 1 <=> Answered200(i)
    /\ \A k \in 1..Len(page_log) :
          /\ gets[page_log[k].at] = page_log[k].page
          /\ \A i \in 1..Len(gets) :
                i > page_log[k].at => gets[i] > page_log[k].page
    /\ (page_log # <<>> /\ Len(gets) > page_log[Len(page_log)].at)
          => Len(fetched) = ItemsServed(page_log)

C19_Witness ==
    /\ \E i \in 1..(Len(gets) - 1) : gets[i] = 1 /\ gets[i + 1] = 1
    /\ \E i \in 1..(Len(gets) - 1) : gets[i] = 2 /\ gets[i + 1] = 2
    /\ Len(page_log) >= 2

=============================================================================
